---- MODULE Spec2Model ----
(***************************************************************************)
(* A model of the two stateful cores of the WebXR demo:                    *)
(*   - AudioSpectrum (band aggregation, smoothing, particle pool,          *)
(*     emission timers, animation loops, dispose), and                     *)
(*   - VRSceneManager (XR state observer, head-tracking poller, session    *)
(*     snapshot, enterVR / exitVR / getVRSessionData).                     *)
(*                                                                         *)
(* Numbers.  JavaScript numbers are modelled as exact fixed-point          *)
(* integers.  An intensity x in [0,1] is the integer x * Scale; a time of  *)
(* t seconds is the integer t * 20 * Scale, so that every value the code   *)
(* computes within MaxFrames frames is an integer.  NaN is a value of its  *)
(* own that every arithmetic operation propagates and every comparison     *)
(* rejects, as IEEE-754 does.                                              *)
(***************************************************************************)
EXTENDS Integers, Sequences, FiniteSets, TLC

(* ------------------------------ bounds -------------------------------- *)
\* largest config.bandCount explored
MaxBands == 2
\* processFrequencyBands invocations per run of the aggregator alone
MaxCalls == 2
\* largest analyser.frequencyBinCount explored
MaxBins == 3
\* animation frames per run (also fixes the fixed-point resolution)
MaxFrames == 5
\* pool entries per band (10 in the source; scaled so that exhaustion is reached)
maxParticlesPerCylinder == 3

(* --------------------------- number model ----------------------------- *)
RECURSIVE Pow10(_)
Pow10(k) == IF k = 0 THEN 1 ELSE 10 * Pow10(k - 1)

RECURSIVE Gcd(_, _)
Gcd(a, b) == IF b = 0 THEN a ELSE Gcd(b, a % b)

RECURSIVE LcmUpTo(_)
LcmUpTo(k) == IF k <= 1 THEN 1 ELSE (LcmUpTo(k - 1) * k) \div Gcd(LcmUpTo(k - 1), k)

\* a byte magnitude is a multiple of ByteUnit: b / 255 * 2.5 = (b / ByteUnit) / 2
ByteUnit == 255 \div 5
ByteVals == {0, ByteUnit, 5 * ByteUnit}

\* the integer that stands for intensity 1.0
Scale == 2 * LcmUpTo(MaxBins) * Pow10(MaxFrames)
\* the integer that stands for one second
Second == 20 * Scale

NaN == -2000000000
IsNaN(x) == x = NaN

Min(a, b) == IF IsNaN(a) \/ IsNaN(b) THEN NaN ELSE IF a < b THEN a ELSE b
Max(a, b) == IF IsNaN(a) \/ IsNaN(b) THEN NaN ELSE IF a > b THEN a ELSE b
Sub(a, b) == IF IsNaN(a) \/ IsNaN(b) THEN NaN ELSE a - b
\* a <= 0 in JavaScript: false for NaN
LeqZero(a) == ~IsNaN(a) /\ a <= 0
\* a / b where the fixed-point resolution makes the quotient an integer
ExactDiv(a, b) == IF a % b = 0 THEN a \div b ELSE CHOOSE x \in {} : TRUE

RECURSIVE SumTo(_, _, _)
\* sum of data[j] for the 0-based indices lo <= j < hi
SumTo(data, lo, hi) == IF lo >= hi THEN 0 ELSE data[lo + 1] + SumTo(data, lo + 1, hi)

(* ------------------------------ state --------------------------------- *)
VARIABLES
  bandCount,               \* config.bandCount
  binCount,                \* analyser.frequencyBinCount
  audioPc,                 \* initializeAudio: "pending" | "mic" | "fallback"
  audioContext,            \* this.audioContext # null
  analyser,                \* this.analyser # null
  microphone,              \* this.microphone # null
  frequencyData,           \* this.frequencyData (<<>> stands for null)
  smoothedData,            \* this.smoothedData, bands 0..bandCount-1
  particleEmissionTimers,  \* this.particleEmissionTimers
  particlePool,            \* this.particlePool
  spectrumBars,            \* this.spectrumBars: scaling.y of each bar
  animationFrame,          \* this.animationFrame # null
  rafCallback,             \* the callback requestAnimationFrame holds
  burstTimeouts,           \* pending burst setTimeout callbacks per band
  frames,                  \* animation frames run so far
  lastFrame,               \* what the most recent frame was
  disposed,                \* dispose() has run
  burstDropped,            \* history: a burst callback found its band's pool exhausted
  lateBurst,               \* history: a burst callback ran after dispose()
  emissionDropped,         \* history: a frame's regular emission found the pool exhausted
  baseColors,              \* per band: the gradient parameter and the colour it gave
  vrSetup,                 \* setupVR: "pending" | "done" | "failed"
  xrHelper,                \* this.xrHelper # null
  observerAdded,           \* the onStateChangedObservable handler is registered
  xrState,                 \* the state of the last notification (NOT_IN_XR at first)
  sessions,                \* heap: VRSessionData objects by reference
  objects,                 \* heap: the vectors / controller arrays they point to
  headTrackingInterval,    \* this.headTrackingInterval (0 stands for null)
  liveTimers,              \* interval timers the browser still fires
  uiSnapshot,              \* App's vrSessionData state: reference of a session object
  enterPc,                 \* enterVR: "idle" | "awaiting"
  enterOutcome,            \* what decided the last enterVR call
  enterResult,             \* how the last enterVR promise settled
  exitPc,                  \* exitVR: "idle" | "awaiting"
  exitResult,              \* how the last exitVR promise settled
  vrDisposed,              \* VRSceneManager.dispose() has run
  trackingPhase,           \* history: "stopped" | "started"
  pollerLog,               \* history: pollers started, ticks run (saturating)
  config,                  \* the VRSceneConfig the constructor was given
  setup,                   \* which optional setup steps have run
  cameraFov,               \* this.camera.fov (0: as the camera was constructed)
  appMounted,              \* the App component is mounted
  updateInterval           \* App's 100 ms timer is live

audioVars == <<bandCount, binCount, audioPc, audioContext, analyser, microphone,
               frequencyData, smoothedData, particleEmissionTimers, particlePool,
               spectrumBars, animationFrame, rafCallback, burstTimeouts, frames,
               lastFrame, disposed, burstDropped, lateBurst, emissionDropped,
               baseColors>>

vrVars == <<vrSetup, xrHelper, observerAdded, xrState, sessions, objects,
            headTrackingInterval, liveTimers, uiSnapshot, enterPc, enterOutcome,
            enterResult, exitPc, exitResult, vrDisposed, trackingPhase, pollerLog,
            config, setup, cameraFov, appMounted, updateInterval>>

sceneVars == <<config, setup, cameraFov>>

appVars == <<appMounted, updateInterval>>

vars == <<audioVars, vrVars>>

Bands == 0 .. (bandCount - 1)

(* ------------------------- AudioSpectrum ------------------------------ *)
maxHeight == 4
maxLife == 3 * Second

C2_mutant_newParticle(i) ==
  [ life |-> 0, maxLife |-> maxLife, active |-> FALSE, enabled |-> FALSE,
    cylinderIndex |-> i \div (maxParticlesPerCylinder + 1), emissions |-> 0,
    topY |-> 0 ]

\* the pool entry created for pool index i (0-based); emissions counts the
\* emitParticle calls that selected the entry
newParticle(i) ==
  [ life |-> 0, maxLife |-> maxLife, active |-> FALSE, enabled |-> FALSE,
    cylinderIndex |-> i \div maxParticlesPerCylinder, emissions |-> 0,
    topY |-> 0 ]

initializeParticlePool(n) ==
  [ k \in 1 .. (n * maxParticlesPerCylinder) |-> newParticle(k - 1) ]

\* colour components and the gradient parameter count in units of 1/ColorScale
ColorScale == 100 * LcmUpTo(MaxBands)

\* i / (this.config.bandCount - 1); 0 / 0 is NaN
progressOf(i, n) == IF n - 1 = 0 THEN NaN ELSE ExactDiv(i * ColorScale, n - 1)

\* a * (1 - t) + b * t
lerp(a, b, t) ==
  IF IsNaN(t) THEN NaN ELSE (a * (ColorScale - t) + b * t) \div ColorScale

\* a comparison with NaN is false, so NaN takes the last segment
getCyberpunkColor(progress) ==
  LET third == (33 * ColorScale) \div 100
      twoThirds == (66 * ColorScale) \div 100
      rest == (34 * ColorScale) \div 100
  IN IF ~IsNaN(progress) /\ progress < third
     THEN LET t == (progress * ColorScale) \div third
          IN [ r |-> lerp(0, 0, t), g |-> lerp(ColorScale \div 2, ColorScale, t),
               b |-> ColorScale ]
     ELSE IF ~IsNaN(progress) /\ progress < twoThirds
     THEN LET t == ((progress - third) * ColorScale) \div third
          IN [ r |-> lerp(0, ColorScale, t), g |-> lerp(ColorScale, 0, t),
               b |-> ColorScale ]
     ELSE LET t == IF IsNaN(progress) THEN NaN
                   ELSE ((progress - twoThirds) * ColorScale) \div rest
          IN [ r |-> ColorScale, g |-> lerp(0, ColorScale \div 5, t),
               b |-> lerp(ColorScale, (4 * ColorScale) \div 5, t) ]

\* the base colour createSpectrumBars and initializeParticlePool give band i
createBaseColors(n) ==
  [ i \in 0 .. (n - 1) |->
      [ progress |-> progressOf(i, n), color |-> getCyberpunkColor(progressOf(i, n)) ] ]

\* bars are created with height 0.5 and scaling.y = 1
createSpectrumBars(n) == [ i \in 0 .. (n - 1) |-> Scale ]

C20_mutant_getInactiveParticle(pool, cylinderIndex) ==
  LET free == { k \in DOMAIN pool :
                  ~pool[k].active /\ pool[k].cylinderIndex = cylinderIndex }
      own  == { k \in DOMAIN pool : pool[k].cylinderIndex = cylinderIndex }
  IN IF free # {} THEN CHOOSE k \in free : \A j \in free : k <= j
     ELSE IF own # {} THEN CHOOSE k \in own : \A j \in own : k <= j
     ELSE 0

\* index of the first inactive entry of the band, 0 for null
getInactiveParticle(pool, cylinderIndex) ==
  LET free == { k \in DOMAIN pool :
                  ~pool[k].active /\ pool[k].cylinderIndex = cylinderIndex }
  IN IF free = {} THEN 0 ELSE CHOOSE k \in free : \A j \in free : k <= j

\* every entry of the band is in flight
poolExhausted(pool, cylinderIndex) ==
  /\ \E k \in DOMAIN pool : pool[k].cylinderIndex = cylinderIndex
  /\ getInactiveParticle(pool, cylinderIndex) = 0

C17_mutant_emitParticle(pool, bars, cylinderIndex) ==
  LET k == getInactiveParticle(pool, cylinderIndex)
  IN IF k = 0 THEN pool
     ELSE [ pool EXCEPT ![k] = [ @ EXCEPT !.life = pool[k].maxLife,
                                          !.active = TRUE,
                                          !.topY = bars[cylinderIndex],
                                          !.emissions = @ + 1 ] ]

\* emitParticle(cylinderIndex, intensity): nothing without an inactive entry;
\* else the entry is placed on its bar, given life = maxLife and shown
\* topY = bar.position.y + bar.scaling.y * 0.5, where every emission follows
\* a bar update of its loop, which leaves position.y = scaling.y / 2
emitParticle(pool, bars, cylinderIndex) ==
  LET k == getInactiveParticle(pool, cylinderIndex)
  IN IF k = 0 THEN pool
     ELSE [ pool EXCEPT ![k] = [ @ EXCEPT !.life = pool[k].maxLife,
                                          !.active = TRUE,
                                          !.enabled = TRUE,
                                          !.topY = bars[cylinderIndex],
                                          !.emissions = @ + 1 ] ]

C3_mutant_updateParticle(p, deltaTime) ==
  IF ~p.active THEN p
  ELSE LET life == p.life - deltaTime
       IN IF life < 0
          THEN [ p EXCEPT !.life = life, !.active = FALSE, !.enabled = FALSE ]
          ELSE [ p EXCEPT !.life = life ]

updateParticle(p, deltaTime) ==
  IF ~p.active THEN p
  ELSE LET life == p.life - deltaTime
       IN IF life <= 0
          THEN [ p EXCEPT !.life = life, !.active = FALSE, !.enabled = FALSE ]
          ELSE [ p EXCEPT !.life = life ]

updateParticles(pool, deltaTime) ==
  [ k \in DOMAIN pool |-> updateParticle(pool[k], deltaTime) ]

\* Math.min(0.3, Math.max(0.05, 0.3 - intensity * 0.25)), in time units
emissionRate(intensity) ==
  Min(6 * Scale, Max(Scale, IF IsNaN(intensity) THEN NaN ELSE 6 * Scale - 5 * intensity))

C19_mutant_burstThreshold(intensity) == ~IsNaN(intensity) /\ 10 * intensity > 5 * Scale

\* intensity > 0.7
burstThreshold(intensity) == ~IsNaN(intensity) /\ 10 * intensity > 7 * Scale

C15_mutant_smoothBand(old, data, i, bandsPerBar) ==
  LET startIndex == i * bandsPerBar
      endIndex   == Min(startIndex + bandsPerBar + 1, Len(data))
      sum        == SumTo(data, startIndex, endIndex)
      count      == endIndex - startIndex
      amplified  == IF count = 0 THEN NaN
                    ELSE ExactDiv(ExactDiv(sum, ByteUnit) * Scale, 2 * count)
      normalized == Min(amplified, Scale)
  IN IF IsNaN(old) \/ IsNaN(normalized) THEN NaN
     ELSE ExactDiv(7 * old + 3 * normalized, 10)

\* one band of processFrequencyBands: the new smoothed value of band i
smoothBand(old, data, i, bandsPerBar) ==
  LET startIndex == i * bandsPerBar
      endIndex   == Min(startIndex + bandsPerBar, Len(data))
      sum        == SumTo(data, startIndex, endIndex)
      count      == endIndex - startIndex
      \* sum / count / 255 * 2.5; 0 / 0 is NaN
      amplified  == IF count = 0 THEN NaN
                    ELSE ExactDiv(ExactDiv(sum, ByteUnit) * Scale, 2 * count)
      normalized == Min(amplified, Scale)
  IN IF IsNaN(old) \/ IsNaN(normalized) THEN NaN
     ELSE ExactDiv(7 * old + 3 * normalized, 10)

processFrequencyBands(smoothed, data, n) ==
  IF data = <<>> THEN smoothed
  ELSE LET bandsPerBar == Len(data) \div n
       IN [ i \in 0 .. (n - 1) |-> smoothBand(smoothed[i], data, i, bandsPerBar) ]

\* bar.scaling.y = 0.5 + intensity * maxHeight
targetHeight(intensity) ==
  IF IsNaN(intensity) THEN NaN ELSE (Scale \div 2) + intensity * maxHeight

updateSpectrumBars(bars, smoothed) ==
  [ i \in DOMAIN bars |-> targetHeight(smoothed[i]) ]

\* sin(time + i * 0.5) * 0.5 + 0.5 sampled at three phases of the wave
WaveTable == <<0, Scale \div 2, Scale>>
wave(phase, i) == WaveTable[((phase + i) % 3) + 1]
C28_mutant_fallbackIntensity(w) == ExactDiv(3 * w, 10) + ExactDiv(Scale, 2)

\* wave * 0.3 + 0.1
fallbackIntensity(w) == ExactDiv(3 * w, 10) + ExactDiv(Scale, 10)
\* 0.5 + intensity * maxHeight * 0.5
fallbackHeight(intensity) == (Scale \div 2) + ExactDiv(intensity * maxHeight, 2)

fallbackBars(bars, phase) ==
  [ i \in DOMAIN bars |-> fallbackHeight(fallbackIntensity(wave(phase, i))) ]

\* the burst branch: how many staggered setTimeout callbacks are scheduled;
\* roll is 0 when Math.random() >= 0.3, else burstCount (1 or 2)
burstScheduled(intensity, roll) == IF burstThreshold(intensity) THEN roll ELSE 0

C27_mutant_emissionStep(st, bars, i, intensity, deltaTime, roll) ==
  LET timer == Sub(st.timers[i], deltaTime)
  IN IF LeqZero(timer) /\ ~poolExhausted(st.pool, i)
     THEN [ pool   |-> emitParticle(st.pool, bars, i),
            timers |-> [ st.timers EXCEPT ![i] = emissionRate(intensity) ],
            bursts |-> [ st.bursts EXCEPT ![i] = @ + burstScheduled(intensity, roll) ],
            dropped |-> st.dropped ]
     ELSE [ st EXCEPT !.timers[i] = timer,
                      !.dropped = (@ \/ LeqZero(timer)) ]

\* the body of the updateParticleEmission loop for band i; dropped records
\* that an emitParticle call of the loop found its band's pool exhausted
emissionStep(st, bars, i, intensity, deltaTime, roll) ==
  LET timer == Sub(st.timers[i], deltaTime)
  IN IF LeqZero(timer)
     THEN [ pool   |-> emitParticle(st.pool, bars, i),
            timers |-> [ st.timers EXCEPT ![i] = emissionRate(intensity) ],
            bursts |-> [ st.bursts EXCEPT ![i] = @ + burstScheduled(intensity, roll) ],
            dropped |-> (st.dropped \/ poolExhausted(st.pool, i)) ]
     ELSE [ st EXCEPT !.timers[i] = timer ]

RECURSIVE emissionLoop(_, _, _, _, _, _, _)
emissionLoop(st, bars, i, n, smoothed, deltaTime, rolls) ==
  IF i >= n THEN st
  ELSE emissionLoop(emissionStep(st, bars, i, smoothed[i], deltaTime, rolls[i]), bars,
                    i + 1, n, smoothed, deltaTime, rolls)

updateParticleEmission(pool, bars, timers, bursts, n, smoothed, deltaTime, rolls) ==
  emissionLoop([ pool |-> pool, timers |-> timers, bursts |-> bursts,
                 dropped |-> FALSE ], bars,
               0, n, smoothed, deltaTime, rolls)

(* ------------------------ inputs of a frame --------------------------- *)
\* elapsed time between two frames: 0.2 s, and 3 s (a stalled page)
DeltaTimes == { 4 * Scale, 60 * Scale }
\* frequency samples fed to the animation loop: silence, and a loud signal
\* in the lowest bin only
AudioSamples(bins) ==
  { [ j \in 1 .. bins |-> 0 ],
    [ j \in 1 .. bins |-> IF j = 1 THEN 5 * ByteUnit ELSE 0 ] }
\* the outcomes of Math.random() in the burst branch, per band; a roll is
\* drawn only for a band whose intensity passes the burst threshold
Rolls(smoothed) ==
  { r \in [ Bands -> 0 .. 2 ] : \A i \in Bands : ~burstThreshold(smoothed[i]) => r[i] = 0 }
Phases == 0 .. 2

\* analyser.frequencyBinCount of the runs of the animation loop: fewer bins
\* than bands, and more
BinCounts == { 1, MaxBins }

(* ----------------------------- actions -------------------------------- *)
\* the state the constructor leaves, initializeAudio awaiting getUserMedia
Constructed ==
  /\ bandCount \in 1 .. MaxBands
  /\ audioPc = "pending"
  /\ audioContext = FALSE
  /\ analyser = FALSE
  /\ microphone = FALSE
  /\ frequencyData = <<>>
  /\ smoothedData = [ i \in Bands |-> 0 ]
  /\ particleEmissionTimers = [ i \in Bands |-> 0 ]
  /\ spectrumBars = createSpectrumBars(bandCount)
  /\ particlePool = initializeParticlePool(bandCount)
  /\ animationFrame = FALSE
  /\ rafCallback = "none"
  /\ burstTimeouts = [ i \in Bands |-> 0 ]
  /\ frames = 0
  /\ lastFrame = "none"
  /\ disposed = FALSE
  /\ burstDropped = FALSE
  /\ lateBurst = FALSE
  /\ emissionDropped = FALSE
  /\ baseColors = createBaseColors(bandCount)

AudioInit ==
  /\ Constructed
  /\ binCount \in BinCounts

\* the particle part of a frame: updateParticles, then updateParticleEmission
C29_mutant_updateParticleSystem(pool, bars, timers, bursts, n, smoothed, deltaTime, rolls) ==
  LET st == updateParticleEmission(pool, bars, timers, bursts, n, smoothed,
                                   deltaTime, rolls)
  IN [ st EXCEPT !.pool = updateParticles(st.pool, deltaTime) ]

\* the particle part of a frame: updateParticles(deltaTime), then
\* updateParticleEmission(deltaTime)
updateParticleSystem(pool, bars, timers, bursts, n, smoothed, deltaTime, rolls) ==
  updateParticleEmission(updateParticles(pool, deltaTime), bars, timers, bursts,
                         n, smoothed, deltaTime, rolls)

ParticleFrame(smoothed, bars, deltaTime, rolls) ==
  LET st == updateParticleSystem(particlePool, bars, particleEmissionTimers,
                                 burstTimeouts, bandCount, smoothed, deltaTime, rolls)
  IN /\ particlePool' = st.pool
     /\ particleEmissionTimers' = st.timers
     /\ burstTimeouts' = st.bursts
     /\ emissionDropped' = (emissionDropped \/ st.dropped)

\* one run of startVisualization's animate()
MicFrame(ready, deltaTime, sample, rolls) ==
  IF ~ready
  THEN /\ rafCallback' = "none"
       /\ UNCHANGED <<frequencyData, smoothedData, spectrumBars, particlePool,
                      particleEmissionTimers, burstTimeouts, animationFrame,
                      frames, lastFrame, emissionDropped>>
  ELSE /\ frequencyData' = sample
       /\ smoothedData' = processFrequencyBands(smoothedData, sample, bandCount)
       /\ spectrumBars' = updateSpectrumBars(spectrumBars, smoothedData')
       /\ ParticleFrame(smoothedData', spectrumBars', deltaTime, rolls)
       /\ animationFrame' = TRUE
       /\ rafCallback' = "mic"
       /\ frames' = frames + 1
       /\ lastFrame' = "mic"

\* one run of createFallbackAnimation's animate()
FallbackFrame(deltaTime, phase, rolls) ==
  /\ spectrumBars' = fallbackBars(spectrumBars, phase)
  /\ ParticleFrame(smoothedData, spectrumBars', deltaTime, rolls)
  /\ animationFrame' = TRUE
  /\ rafCallback' = "fallback"
  /\ frames' = frames + 1
  /\ lastFrame' = "fallback"
  /\ UNCHANGED <<frequencyData, smoothedData>>

\* getUserMedia resolves and every setup step succeeds: startVisualization()
\* runs its first frame at once
InitializeAudioOk ==
  /\ UNCHANGED vrVars
  /\ UNCHANGED <<burstDropped, lateBurst, baseColors>>
  /\ audioPc = "pending"
  /\ frames < MaxFrames
  /\ audioPc' = "mic"
  /\ audioContext' = TRUE
  /\ analyser' = TRUE
  /\ microphone' = TRUE
  /\ \E sample \in AudioSamples(binCount) :
       \E rolls \in Rolls(processFrequencyBands(smoothedData, sample, bandCount)) :
         MicFrame(TRUE, 0, sample, rolls)
  /\ UNCHANGED <<bandCount, binCount, disposed>>

C10_mutant_initializeAudioCatch == "rejected"

\* what the catch block of initializeAudio does: it swallows the error and
\* starts the fallback loop ("rejected" would be the error leaving the method)
initializeAudioCatch == "fallback"

\* getUserMedia rejects (step 0) or a later setup step throws: step 1 the
\* AudioContext constructor, 2 createAnalyser, 3 createMediaStreamSource,
\* 4 connect; the catch block starts the fallback loop, whose first frame
\* runs at once
InitializeAudioFail(step) ==
  /\ UNCHANGED vrVars
  /\ UNCHANGED <<burstDropped, lateBurst, baseColors>>
  /\ audioPc = "pending"
  /\ frames < MaxFrames
  /\ audioPc' = initializeAudioCatch
  /\ audioContext' = (step >= 2)
  /\ analyser' = (step >= 3)
  /\ microphone' = (step >= 4)
  /\ IF initializeAudioCatch = "fallback"
     THEN \E phase \in Phases, rolls \in Rolls(smoothedData) :
            FallbackFrame(0, phase, rolls)
     ELSE UNCHANGED <<frequencyData, smoothedData, spectrumBars, particlePool,
                      particleEmissionTimers, burstTimeouts, animationFrame,
                      rafCallback, frames, lastFrame, emissionDropped>>
  /\ UNCHANGED <<bandCount, binCount, disposed>>

\* the browser runs the animation-frame callback of the microphone loop
Animate ==
  /\ UNCHANGED vrVars
  /\ UNCHANGED <<burstDropped, lateBurst, baseColors>>
  /\ rafCallback = "mic"
  /\ frames < MaxFrames
  /\ \E deltaTime \in DeltaTimes, sample \in AudioSamples(binCount) :
       \E rolls \in Rolls(processFrequencyBands(smoothedData, sample, bandCount)) :
         MicFrame(analyser /\ frequencyData # <<>>, deltaTime, sample, rolls)
  /\ UNCHANGED <<bandCount, binCount, audioPc, audioContext, analyser, microphone,
                 disposed>>

\* the browser runs the animation-frame callback of the fallback loop
FallbackAnimate ==
  /\ UNCHANGED vrVars
  /\ UNCHANGED <<burstDropped, lateBurst, baseColors>>
  /\ rafCallback = "fallback"
  /\ frames < MaxFrames
  /\ \E deltaTime \in DeltaTimes, phase \in Phases, rolls \in Rolls(smoothedData) :
       FallbackFrame(deltaTime, phase, rolls)
  /\ UNCHANGED <<bandCount, binCount, audioPc, audioContext, analyser, microphone,
                 disposed>>

\* a staggered burst callback fires: emitParticle(i, intensity)
BurstTimeout(i) ==
  /\ UNCHANGED vrVars
  /\ burstTimeouts[i] > 0
  /\ burstTimeouts' = [ burstTimeouts EXCEPT ![i] = @ - 1 ]
  /\ particlePool' = emitParticle(particlePool, spectrumBars, i)
  /\ burstDropped' = (burstDropped \/ poolExhausted(particlePool, i))
  /\ lateBurst' = (lateBurst \/ disposed)
  /\ UNCHANGED <<emissionDropped, baseColors>>
  /\ UNCHANGED <<bandCount, binCount, audioPc, audioContext, analyser, microphone,
                 frequencyData, smoothedData, particleEmissionTimers, spectrumBars,
                 animationFrame, rafCallback, frames, lastFrame, disposed>>

C30_mutant_disposeObjects(objects3d) == objects3d

\* dispose(): every mesh, material and light is disposed and the array that
\* held them is replaced by []
disposeObjects(objects3d) == <<>>

Dispose ==
  /\ UNCHANGED vrVars
  /\ UNCHANGED <<burstDropped, lateBurst, emissionDropped>>
  /\ ~disposed
  /\ disposed' = TRUE
  /\ rafCallback' = IF animationFrame THEN "none" ELSE rafCallback
  /\ animationFrame' = FALSE
  /\ microphone' = FALSE
  /\ audioContext' = FALSE
  /\ spectrumBars' = disposeObjects(spectrumBars)
  /\ baseColors' = disposeObjects(baseColors)
  /\ particlePool' = disposeObjects(particlePool)
  /\ UNCHANGED <<bandCount, binCount, audioPc, analyser, frequencyData,
                 smoothedData, particleEmissionTimers, burstTimeouts, frames,
                 lastFrame>>

NextAudio ==
  \/ InitializeAudioOk
  \/ \E step \in 0 .. 4 : InitializeAudioFail(step)
  \/ Animate
  \/ FallbackAnimate
  \/ \E i \in Bands : BurstTimeout(i)
  \/ Dispose

(* -------------------- the band aggregator alone ----------------------- *)
\* every frequency sample of the given bin count over ByteVals
Samples(bins) == [ 1 .. bins -> ByteVals ]

BandsConfig ==
  /\ Constructed
  /\ binCount \in 1 .. MaxBins

\* the analyser fills frequencyData with an arbitrary sample and
\* processFrequencyBands runs on it
ProcessBands ==
  /\ UNCHANGED vrVars
  /\ UNCHANGED <<burstDropped, lateBurst, emissionDropped, baseColors>>
  /\ frames < MaxCalls
  /\ \E sample \in Samples(binCount) :
       /\ frequencyData' = sample
       /\ smoothedData' = processFrequencyBands(smoothedData, sample, bandCount)
  /\ frames' = frames + 1
  /\ UNCHANGED <<bandCount, binCount, audioPc, audioContext, analyser, microphone,
                 particleEmissionTimers, particlePool, spectrumBars,
                 animationFrame, rafCallback, burstTimeouts, lastFrame, disposed>>

(* ------------------------- VRSceneManager ----------------------------- *)
XRStates == {"NOT_IN_XR", "ENTERING_XR", "IN_XR", "EXITING_XR"}

\* the object this.vrSessionData refers to from the constructor on
vrSessionData == 1

ZeroVector == <<0, 0, 0>>

\* Math.round(v * 100) / 100 for v given in thousandths; the result is in
\* hundredths (Math.round rounds a half upwards)
round100(v) == (v + 5) \div 10

\* r * 180 / Math.PI for r given in units of pi/1800 rad; the result is in
\* thousandths of a degree
radToDeg(r) == 100 * r

roundVector(v) == << round100(v[1]), round100(v[2]), round100(v[3]) >>
roundAngles(v) ==
  << round100(radToDeg(v[1])), round100(radToDeg(v[2])), round100(radToDeg(v[3])) >>

\* what the XR camera and the XR input report when a poll tick reads them:
\* positions in thousandths, rotations in units of pi/1800 rad
Readings ==
  { [ position |-> <<1234, 1606, -5>>, rotation |-> <<-150, 900, 0>>,
      controllers |-> <<>> ],
    [ position |-> <<-251, 1498, 3046>>, rotation |-> <<0, 1799, 4>>,
      controllers |->
        << [ pointer |-> TRUE, position |-> <<-245, 1004, 306>>,
             rotation |-> <<0, 450, 0>>, connected |-> TRUE ],
           [ pointer |-> FALSE, position |-> ZeroVector,
             rotation |-> ZeroVector, connected |-> FALSE ] >> ] }

\* the controllers.map(...) callback of the poll tick
controllerEntry(c, index) ==
  [ id |-> index,
    position |-> IF c.pointer THEN roundVector(c.position) ELSE ZeroVector,
    rotation |-> IF c.pointer THEN roundAngles(c.rotation) ELSE ZeroVector,
    connected |-> c.connected ]

controllerEntries(cs) == [ k \in DOMAIN cs |-> controllerEntry(cs[k], k - 1) ]

(* the heap: a VRSessionData object holds its two flags and the references
   of its headPosition, headRotation and controllers objects *)
ObjRefs(s) == {s.headPosition, s.headRotation, s.controllers}
Reachable(sess) == UNION { ObjRefs(sess[r]) : r \in DOMAIN sess }
Collect(sess, objs) == [ r \in Reachable(sess) |-> objs[r] ]
Smallest(S) == CHOOSE x \in S : \A y \in S : x <= y

\* three references (and write stamps) that nothing reachable uses
FreshRefs(sess, objs) ==
  LET used == Reachable(sess) \cup { objs[r].origin : r \in Reachable(sess) }
      free == (1 .. (Cardinality(used) + 3)) \ used
      a == Smallest(free)
      b == Smallest(free \ {a})
      c == Smallest(free \ {a, b})
  IN << a, b, c >>

\* this.vrSessionData.headPosition = {...}; .headRotation = {...};
\* .controllers = [...]: three new objects, stamped with the write they
\* come from (0: a zeroed reset, otherwise the tick)
assignTracking(sess, objs, pos, rot, ctrl, tick) ==
  LET f == FreshRefs(sess, objs)
      stamp == IF tick THEN f[1] ELSE 0
      sess2 == [ sess EXCEPT ![vrSessionData].headPosition = f[1],
                             ![vrSessionData].headRotation = f[2],
                             ![vrSessionData].controllers = f[3] ]
      objs2 == [ r \in (DOMAIN objs) \cup {f[1], f[2], f[3]} |->
                   IF r = f[1] THEN [ val |-> pos, origin |-> stamp ]
                   ELSE IF r = f[2] THEN [ val |-> rot, origin |-> stamp ]
                   ELSE IF r = f[3] THEN [ val |-> ctrl, origin |-> stamp ]
                   ELSE objs[r] ]
  IN [ sessions |-> sess2, objects |-> Collect(sess2, objs2) ]

C4_mutant_resetTracking(sess, objs) ==
  LET f == FreshRefs(sess, objs)
      sess2 == [ sess EXCEPT ![vrSessionData].headPosition = f[1],
                             ![vrSessionData].controllers = f[3] ]
      objs2 == [ r \in (DOMAIN objs) \cup {f[1], f[3]} |->
                   IF r = f[1] THEN [ val |-> ZeroVector, origin |-> 0 ]
                   ELSE IF r = f[3] THEN [ val |-> <<>>, origin |-> 0 ]
                   ELSE objs[r] ]
  IN [ sessions |-> sess2, objects |-> Collect(sess2, objs2) ]

\* the "Reset tracking data" part of stopHeadTracking
resetTracking(sess, objs) ==
  assignTracking(sess, objs, ZeroVector, ZeroVector, <<>>, FALSE)

C5_mutant_clearTracking(interval, timers) == timers

\* the clearInterval part of stopHeadTracking: the timers still live
clearTracking(interval, timers) ==
  IF interval # 0 THEN timers \ {interval} ELSE timers

C25_mutant_clearPrevious(interval, timers) == timers

\* startHeadTracking: if (this.headTrackingInterval) clearInterval(...)
clearPrevious(interval, timers) ==
  IF interval # 0 THEN timers \ {interval} ELSE timers

\* the state-change handler: state === WebXRState.IN_XR
startsTracking(state) == state = "IN_XR"

C21_mutant_stopsTracking(state) == state \in {"NOT_IN_XR", "EXITING_XR"}

\* the state-change handler: state === WebXRState.NOT_IN_XR
stopsTracking(state) == state = "NOT_IN_XR"

\* a counter that stops counting at 1
Sat(n) == IF n < 1 THEN n + 1 ELSE n

\* the configuration App constructs its scene manager with
AppConfig ==
  [ enablePhysics |-> TRUE, enableAudio |-> TRUE, enableTeleportation |-> TRUE,
    skyboxTexture |-> FALSE ]

\* every VRSceneConfig: three flags, and skyboxTexture given or not
Configs ==
  [ enablePhysics : BOOLEAN, enableAudio : BOOLEAN, enableTeleportation : BOOLEAN,
    skyboxTexture : BOOLEAN ]

\* the optional steps of the constructor's setupScene(config): physics is
\* the one step that reads the configuration; setupScene builds no audio
\* pipeline and no skybox from the option, and teleportation waits for setupVR
setupScene(cfg) ==
  [ physics |-> cfg.enablePhysics, audio |-> FALSE, teleportation |-> FALSE,
    skybox |-> FALSE ]

\* setupVR with a helper: enableFeature(TELEPORTATION, ...) is called
\* whatever the configuration says
enableTeleportation(cfg) == TRUE

\* the manager as the constructor leaves it, setupVR still pending
ManagerInit ==
  /\ setup = setupScene(config)
  /\ cameraFov = 0
  /\ appMounted = TRUE
  /\ updateInterval = TRUE
  /\ vrSetup = "pending"
  /\ xrHelper = FALSE
  /\ observerAdded = FALSE
  /\ xrState = "NOT_IN_XR"
  /\ sessions =
       [ r \in {1, 2} |->
           [ isActive |-> FALSE, isSupported |-> FALSE,
             headPosition |-> 3 * r - 2, headRotation |-> 3 * r - 1,
             controllers |-> 3 * r ] ]
  /\ objects =
       [ r \in 1 .. 6 |->
           [ val |-> IF r % 3 = 0 THEN <<>> ELSE ZeroVector, origin |-> 0 ] ]
  /\ headTrackingInterval = 0
  /\ liveTimers = {}
  /\ uiSnapshot = 2
  /\ enterPc = "idle"
  /\ enterOutcome = "none"
  /\ enterResult = "none"
  /\ exitPc = "idle"
  /\ exitResult = "none"
  /\ vrDisposed = FALSE
  /\ trackingPhase = "stopped"
  /\ pollerLog = [ starts |-> 0, ticks |-> 0 ]

\* the manager App constructs, once initializeVR has started the 100 ms timer
VRInit ==
  /\ config = AppConfig
  /\ ManagerInit

\* setupVR settles: createDefaultXRExperienceAsync rejects, resolves to an
\* empty value, or resolves to a helper; with a helper isSupported is set,
\* the state observer is registered and the features are enabled, and a
\* feature that throws takes the catch block
SetupVRSettle(outcome) ==
  /\ vrSetup = "pending"
  /\ vrSetup' = IF outcome \in {"ok", "empty"} THEN "done" ELSE "failed"
  /\ xrHelper' = (outcome \in {"ok", "featureThrows"})
  /\ observerAdded' = (outcome \in {"ok", "featureThrows"})
  /\ sessions' = [ sessions EXCEPT ![vrSessionData].isSupported =
                     IF outcome = "ok" THEN TRUE
                     ELSE IF outcome = "empty" THEN @ ELSE FALSE ]
  /\ UNCHANGED <<xrState, objects, headTrackingInterval, liveTimers, uiSnapshot,
                 enterPc, enterOutcome, enterResult, exitPc, exitResult,
                 vrDisposed, trackingPhase, pollerLog>>
  /\ setup' = [ setup EXCEPT !.teleportation =
                  outcome = "ok" /\ enableTeleportation(config) ]
  /\ UNCHANGED <<config, cameraFov>>
  /\ UNCHANGED appVars
  /\ UNCHANGED audioVars

\* the onStateChangedObservable handler runs for a notification of the runtime
Notify(state) ==
  /\ observerAdded
  /\ xrState' = state
  /\ trackingPhase' = IF state = "IN_XR" THEN "started"
                      ELSE IF state = "NOT_IN_XR" THEN "stopped"
                      ELSE trackingPhase
  /\ IF startsTracking(state)
     THEN \* startHeadTracking
          LET kept == clearPrevious(headTrackingInterval, liveTimers)
              id == Smallest((1 .. (Cardinality(liveTimers) + 2))
                               \ (liveTimers \cup {headTrackingInterval}))
          IN /\ liveTimers' = kept \cup {id}
             /\ headTrackingInterval' = id
             /\ sessions' = [ sessions EXCEPT ![vrSessionData].isActive = TRUE ]
             /\ pollerLog' = [ pollerLog EXCEPT !.starts = Sat(@) ]
             /\ UNCHANGED objects
     ELSE IF stopsTracking(state)
     THEN \* stopHeadTracking
          LET off == [ sessions EXCEPT ![vrSessionData].isActive = FALSE ]
              h == resetTracking(off, objects)
          IN /\ liveTimers' = clearTracking(headTrackingInterval, liveTimers)
             /\ headTrackingInterval' = 0
             /\ sessions' = h.sessions
             /\ objects' = h.objects
             /\ UNCHANGED pollerLog
     ELSE /\ sessions' = [ sessions EXCEPT ![vrSessionData].isActive = FALSE ]
          /\ UNCHANGED <<objects, headTrackingInterval, liveTimers, pollerLog>>
  /\ UNCHANGED <<vrSetup, xrHelper, observerAdded, uiSnapshot, enterPc,
                 enterOutcome, enterResult, exitPc, exitResult, vrDisposed>>
  /\ UNCHANGED sceneVars
  /\ UNCHANGED appVars
  /\ UNCHANGED audioVars

\* the browser fires a live interval timer: the setInterval callback of
\* startHeadTracking reads the camera and the controllers
Tick(t) ==
  /\ t \in liveTimers
  /\ IF xrHelper
     THEN \E reading \in Readings :
            LET h == assignTracking(sessions, objects,
                                    roundVector(reading.position),
                                    roundAngles(reading.rotation),
                                    controllerEntries(reading.controllers), TRUE)
            IN /\ sessions' = h.sessions
               /\ objects' = h.objects
     ELSE UNCHANGED <<sessions, objects>>
  /\ pollerLog' = [ pollerLog EXCEPT !.ticks = Sat(@) ]
  /\ UNCHANGED <<vrSetup, xrHelper, observerAdded, xrState, headTrackingInterval,
                 liveTimers, uiSnapshot, enterPc, enterOutcome, enterResult,
                 exitPc, exitResult, vrDisposed, trackingPhase>>
  /\ UNCHANGED sceneVars
  /\ UNCHANGED appVars
  /\ UNCHANGED audioVars

C6_mutant_enterVRCatch == "rejected"

\* how the catch block of enterVR settles the promise
enterVRCatch == "false"

\* enterVR up to its await (the interface's isLoading flag admits one call
\* at a time; the record of the previous call is dropped)
EnterVRCall ==
  /\ enterPc = "idle"
  /\ exitPc = "idle"
  /\ IF ~xrHelper
     THEN /\ enterOutcome' = "noHelper"
          /\ enterResult' = "false"
          /\ UNCHANGED enterPc
     ELSE /\ enterPc' = "awaiting"
          /\ enterOutcome' = "none"
          /\ enterResult' = "none"
  /\ exitResult' = "none"
  /\ UNCHANGED <<vrSetup, xrHelper, observerAdded, xrState, sessions, objects,
                 headTrackingInterval, liveTimers, uiSnapshot, exitPc,
                 vrDisposed, trackingPhase, pollerLog>>
  /\ UNCHANGED sceneVars
  /\ UNCHANGED appVars
  /\ UNCHANGED audioVars

\* enterXRAsync settles: the runtime accepted or refused the session
EnterVRSettle(accepted) ==
  /\ enterPc = "awaiting"
  /\ enterPc' = "idle"
  /\ enterOutcome' = IF accepted THEN "accepted" ELSE "refused"
  /\ enterResult' = IF accepted THEN "true" ELSE enterVRCatch
  /\ UNCHANGED <<vrSetup, xrHelper, observerAdded, xrState, sessions, objects,
                 headTrackingInterval, liveTimers, uiSnapshot, exitPc, exitResult,
                 vrDisposed, trackingPhase, pollerLog>>
  /\ UNCHANGED sceneVars
  /\ UNCHANGED appVars
  /\ UNCHANGED audioVars

C7_mutant_exitVRGuard(helper) == TRUE

\* the condition under which exitVR dereferences the helper
exitVRGuard(helper) == helper

\* exitVR up to its await; dereferencing a null helper is a TypeError
ExitVRCall ==
  /\ exitPc = "idle"
  /\ enterPc = "idle"
  /\ IF ~exitVRGuard(xrHelper)
     THEN /\ exitResult' = "resolved"
          /\ UNCHANGED exitPc
     ELSE IF ~xrHelper
     THEN /\ exitResult' = "rejected"
          /\ UNCHANGED exitPc
     ELSE /\ exitPc' = IF xrState = "NOT_IN_XR" THEN "awaitIdle" ELSE "awaitSession"
          /\ UNCHANGED exitResult
  /\ enterOutcome' = "none"
  /\ enterResult' = "none"
  /\ UNCHANGED <<vrSetup, xrHelper, observerAdded, xrState, sessions, objects,
                 headTrackingInterval, liveTimers, uiSnapshot, enterPc,
                 vrDisposed, trackingPhase, pollerLog>>
  /\ UNCHANGED sceneVars
  /\ UNCHANGED appVars
  /\ UNCHANGED audioVars

\* exitXRAsync settles; with no session to end it resolves, and a failure to
\* end a session leaves exitVR as a rejection (exitVR has no catch block)
ExitVRSettle(ended) ==
  /\ exitPc # "idle"
  /\ exitPc = "awaitIdle" => ended
  /\ exitPc' = "idle"
  /\ exitResult' = IF ended THEN "resolved" ELSE "rejected"
  /\ UNCHANGED <<vrSetup, xrHelper, observerAdded, xrState, sessions, objects,
                 headTrackingInterval, liveTimers, uiSnapshot, enterPc,
                 enterOutcome, enterResult, vrDisposed, trackingPhase, pollerLog>>
  /\ UNCHANGED sceneVars
  /\ UNCHANGED appVars
  /\ UNCHANGED audioVars

C9_mutant_getVRSessionData(fresh) == vrSessionData

\* the reference getVRSessionData returns: the new object of the spread
\* { ...this.vrSessionData }, whose fields are those of this.vrSessionData
getVRSessionData(fresh) == fresh

\* App's 100 ms timer: setVRSessionData(sceneManager.getVRSessionData())
UpdateInterval ==
  /\ updateInterval
  /\ appMounted
  /\ LET fresh == Smallest((1 .. 3) \ {vrSessionData, uiSnapshot})
         ret == getVRSessionData(fresh)
         sess2 == [ r \in {vrSessionData, ret} |-> sessions[vrSessionData] ]
     IN /\ uiSnapshot' = ret
        /\ sessions' = sess2
        /\ objects' = Collect(sess2, objects)
  /\ UNCHANGED appVars
  /\ UNCHANGED <<vrSetup, xrHelper, observerAdded, xrState, headTrackingInterval,
                 liveTimers, enterPc, enterOutcome, enterResult, exitPc, exitResult,
                 vrDisposed, trackingPhase, pollerLog>>
  /\ UNCHANGED sceneVars
  /\ UNCHANGED audioVars

\* VRSceneManager.dispose(): stopHeadTracking, then the scene and the engine
disposeManager ==
  /\ vrDisposed' = TRUE
  /\ LET h == resetTracking(sessions, objects)
     IN /\ sessions' = h.sessions
        /\ objects' = h.objects
  /\ liveTimers' = clearTracking(headTrackingInterval, liveTimers)
  /\ headTrackingInterval' = 0
  /\ trackingPhase' = "stopped"
  /\ UNCHANGED <<vrSetup, xrHelper, observerAdded, xrState, uiSnapshot, enterPc,
                 enterOutcome, enterResult, exitPc, exitResult, pollerLog>>
  /\ UNCHANGED sceneVars
  /\ UNCHANGED audioVars

VRDispose ==
  /\ ~vrDisposed
  /\ disposeManager
  /\ UNCHANGED appVars

\* what React holds as the cleanup of App's mount effect: the effect
\* callback calls the async initializeVR() and returns nothing, so the
\* teardown function that initializeVR resolves to is never registered
effectCleanup == "none"

\* App unmounts: React runs the registered cleanup of the mount effect; the
\* teardown is clearInterval(updateInterval); sceneManager.dispose()
Unmount ==
  /\ appMounted
  /\ appMounted' = FALSE
  /\ IF effectCleanup = "teardown"
        THEN /\ updateInterval' = FALSE
             /\ disposeManager
        ELSE /\ UNCHANGED updateInterval
             /\ UNCHANGED <<vrSetup, xrHelper, observerAdded, xrState, sessions,
                            objects, headTrackingInterval, liveTimers, uiSnapshot,
                            enterPc, enterOutcome, enterResult, exitPc, exitResult,
                            vrDisposed, trackingPhase, pollerLog>>
             /\ UNCHANGED sceneVars
             /\ UNCHANGED audioVars

\* the 100 ms timer firing after the component is gone: React drops the
\* state update of an unmounted component
StaleInterval ==
  /\ updateInterval
  /\ ~appMounted
  /\ UNCHANGED vars

C13_mutant_degToRad(deg) == deg

\* (fovDegrees * Math.PI) / 180; angles in radians are counted in units of
\* pi/1800, as radToDeg reads them
degToRad(deg) == 10 * deg

\* the FOV slider's range and the default setting
FovInputs == {70, 90, 110}

\* updateCameraFOV(fovDegrees): this.camera.fov = fovRadians
UpdateCameraFOV(deg) ==
  /\ cameraFov' = degToRad(deg)
  /\ UNCHANGED <<vrSetup, xrHelper, observerAdded, xrState, sessions, objects,
                 headTrackingInterval, liveTimers, uiSnapshot, enterPc,
                 enterOutcome, enterResult, exitPc, exitResult, vrDisposed,
                 trackingPhase, pollerLog>>
  /\ UNCHANGED <<config, setup>>
  /\ UNCHANGED appVars
  /\ UNCHANGED audioVars

NextVR ==
  \/ \E outcome \in {"rejected", "empty", "ok", "featureThrows"} : SetupVRSettle(outcome)
  \/ \E state \in XRStates : Notify(state)
  \/ \E t \in liveTimers : Tick(t)
  \/ EnterVRCall
  \/ \E accepted \in BOOLEAN : EnterVRSettle(accepted)
  \/ ExitVRCall
  \/ \E ended \in BOOLEAN : ExitVRSettle(ended)
  \/ UpdateInterval
  \/ VRDispose

(* -------------------------- specifications ---------------------------- *)
Init == AudioInit /\ VRInit

\* the spectrum visualizer on its own
SpecAudio == Init /\ [][NextAudio]_vars

\* the band aggregator on arbitrary samples
BandsInit == BandsConfig /\ VRInit

SpecBands == BandsInit /\ [][ProcessBands]_vars

\* the scene manager's XR session handling on its own
InitVR ==
  /\ Constructed
  /\ bandCount = 1
  /\ binCount = 1
  /\ VRInit

SpecVR == InitVR /\ [][NextVR]_vars

\* the App component around its scene manager: the 100 ms timer, the FOV
\* setting and the unmount, with the XR runtime's notifications
NextApp ==
  \/ \E outcome \in {"rejected", "empty", "ok", "featureThrows"} : SetupVRSettle(outcome)
  \/ \E state \in XRStates : Notify(state)
  \/ \E t \in liveTimers : Tick(t)
  \/ UpdateInterval
  \/ StaleInterval
  \/ \E deg \in FovInputs : UpdateCameraFOV(deg)
  \/ Unmount

SpecApp == InitVR /\ [][NextApp]_vars

\* the scene manager constructed with any configuration
InitSetup ==
  /\ Constructed
  /\ bandCount = 1
  /\ binCount = 1
  /\ config \in Configs
  /\ ManagerInit

NextSetup ==
  \/ \E outcome \in {"rejected", "empty", "ok", "featureThrows"} : SetupVRSettle(outcome)
  \/ \E state \in XRStates : Notify(state)
  \/ \E t \in liveTimers : Tick(t)
  \/ \E deg \in FovInputs : UpdateCameraFOV(deg)
  \/ VRDispose

SpecSetup == InitSetup /\ [][NextSetup]_vars

(* ------------------------------ claims -------------------------------- *)
InUnitRange(x) == ~IsNaN(x) /\ 0 <= x /\ x <= Scale

\* C1: for every band count n > 0 and every frequency sample, after any number
\* of processFrequencyBands invocations the smoothed state holds exactly n
\* values, each a defined number within [0,1] -- also when n exceeds the
\* number of bins.
C1_SmoothedInUnitRange ==
  /\ DOMAIN smoothedData = Bands
  /\ \A i \in Bands : InUnitRange(smoothedData[i])

ActiveCount(b) ==
  Cardinality({ k \in DOMAIN particlePool :
                  particlePool[k].active /\ particlePool[k].cylinderIndex = b })

\* C2: for every band, the number of pool entries of that band that are
\* active at the same time never exceeds maxParticlesPerCylinder.
C2_ActiveWithinCapacity ==
  \A b \in Bands : ActiveCount(b) <= maxParticlesPerCylinder

\* a band whose pool is exhausted (every entry active) while another burst
\* callback for it is still to fire
C2_Witness ==
  \E b \in Bands : ActiveCount(b) = maxParticlesPerCylinder /\ burstTimeouts[b] > 0

\* C3: between two emissions a pool entry's life never increases; in the
\* step where its life reaches <= 0 it becomes inactive with its mesh
\* disabled, and an inactive entry stays inactive, disabled and untouched
\* until an emitParticle call selects it again (life = maxLife, active,
\* enabled).
C3_LifeStep ==
  \A k \in (DOMAIN particlePool) \cap (DOMAIN particlePool') :
    LET p == particlePool[k]
        q == particlePool'[k]
    IN /\ q.emissions = p.emissions =>
            /\ q.life <= p.life
            /\ ~p.active => q = p
       /\ q.emissions # p.emissions =>
            /\ q.emissions = p.emissions + 1
            /\ q.life = q.maxLife
            /\ q.active
            /\ q.enabled
       /\ q.active => q.life > 0
       /\ ~q.active => ~q.enabled /\ q.life <= 0

C3_LifeMonotone == [][C3_LifeStep]_vars

\* an entry that died and was not selected again, next to one that was
\* emitted a second time
C3_Witness ==
  /\ \E k \in DOMAIN particlePool :
       LET p == particlePool[k] IN ~p.active /\ ~p.enabled /\ p.emissions >= 1 /\ p.life <= 0
  /\ \E k \in DOMAIN particlePool :
       LET p == particlePool[k] IN p.active /\ p.enabled /\ p.emissions >= 2

\* C10: when getUserMedia or a later audio-setup step fails, the error does
\* not leave initializeAudio; the fallback loop is started (its first frame
\* has run), no frame of the microphone loop runs, and the fallback loop
\* has its next frame scheduled after every frame (until dispose cancels it).
C10_FallbackState ==
  /\ audioPc # "rejected"
  /\ audioPc = "fallback" =>
       /\ lastFrame = "fallback"
       /\ frames >= 1
       /\ frequencyData = <<>>
       /\ rafCallback = "fallback" \/ (disposed /\ rafCallback = "none")
  /\ audioPc = "pending" => lastFrame = "none" /\ rafCallback = "none"

C10_FailureStep ==
  /\ (audioPc = "pending" /\ audioPc' \notin {"pending", "mic"}) =>
       (audioPc' = "fallback" /\ rafCallback' = "fallback" /\ frames' = frames + 1)
  /\ (audioPc = "fallback" /\ frames' # frames) =>
       (lastFrame' = "fallback" /\ rafCallback' = "fallback")

C10_FallbackOnFailure == []C10_FallbackState /\ [][C10_FailureStep]_vars

\* the analyser was created, a later setup step failed, and the fallback
\* loop has run frames of its own since
C10_Witness ==
  /\ audioPc = "fallback"
  /\ analyser
  /\ frames >= 3
  /\ rafCallback = "fallback"
  /\ ~disposed

(* the values a holder of the session object r reads *)
ViewOf(sess, objs, r) ==
  [ isActive |-> sess[r].isActive,
    isSupported |-> sess[r].isSupported,
    headPosition |-> objs[sess[r].headPosition].val,
    headRotation |-> objs[sess[r].headRotation].val,
    controllers |-> objs[sess[r].controllers].val ]

View(r) == ViewOf(sessions, objects, r)

TrackingZero(v) ==
  /\ v.headPosition = ZeroVector
  /\ v.headRotation = ZeroVector
  /\ v.controllers = <<>>

PollerStopped == headTrackingInterval = 0 /\ liveTimers = {}

\* C4: once the NOT_IN_XR handler has run, headPosition and headRotation are
\* (0,0,0) and controllers is empty whatever the poller wrote before, the
\* poller is stopped, and this stays so under every later step until a
\* notification of IN_XR.
C4_StoppedState ==
  /\ xrState = "NOT_IN_XR" => trackingPhase = "stopped"
  /\ trackingPhase = "stopped" =>
       TrackingZero(View(vrSessionData)) /\ PollerStopped

C4_StoppedStep ==
  (trackingPhase = "stopped" /\ xrState' # "IN_XR") =>
     /\ trackingPhase' = "stopped"
     /\ TrackingZero(ViewOf(sessions', objects', vrSessionData))
     /\ pollerLog'.ticks = pollerLog.ticks

C4_ZeroAfterSessionEnd == []C4_StoppedState /\ [][C4_StoppedStep]_vars

\* the poller wrote a pose, the session ended, and a later notification
\* other than IN_XR has arrived since
C4_Witness ==
  /\ pollerLog.ticks >= 1
  /\ ~vrDisposed
  /\ trackingPhase = "stopped"
  /\ xrState = "ENTERING_XR"

\* C5: when IN_XR is followed by NOT_IN_XR before the first tick, the poller
\* was started and is stopped again, no tick runs, and the snapshot is the
\* zeroed idle snapshot with isActive false (isSupported as before).
C5_FlipState ==
  (pollerLog.starts >= 1 /\ pollerLog.ticks = 0 /\ xrState = "NOT_IN_XR") =>
     /\ PollerStopped
     /\ View(vrSessionData) =
          [ isActive |-> FALSE,
            isSupported |-> sessions[vrSessionData].isSupported,
            headPosition |-> ZeroVector,
            headRotation |-> ZeroVector,
            controllers |-> <<>> ]

C5_FlipStep ==
  /\ xrState' # xrState =>
       sessions'[vrSessionData].isSupported = sessions[vrSessionData].isSupported
  /\ (pollerLog.ticks = 0 /\ xrState = "NOT_IN_XR" /\ xrState' # "IN_XR") =>
       pollerLog'.ticks = 0

C5_QuickFlip == []C5_FlipState /\ [][C5_FlipStep]_vars

\* IN_XR and then NOT_IN_XR were delivered and no tick has run
C5_Witness ==
  /\ pollerLog.starts >= 1
  /\ pollerLog.ticks = 0
  /\ xrState = "NOT_IN_XR"
  /\ ~vrDisposed

\* C6: enterVR settles with a boolean and never rejects: false when the
\* helper is null or the runtime refuses the session, true when the runtime
\* accepts it; and no step of enterVR changes the session snapshot or the
\* poller.
C6_EnterResult ==
  /\ enterResult \in {"none", "true", "false"}
  /\ enterResult = "true" <=> enterOutcome = "accepted"
  /\ enterResult = "false" <=> enterOutcome \in {"noHelper", "refused"}

C6_EnterStep ==
  (enterPc' # enterPc \/ enterResult' \notin {enterResult, "none"}) =>
     /\ ViewOf(sessions', objects', vrSessionData) = View(vrSessionData)
     /\ headTrackingInterval' = headTrackingInterval
     /\ liveTimers' = liveTimers

C6_EnterNeverRejects == []C6_EnterResult /\ [][C6_EnterStep]_vars

\* the runtime refused an enterVR call made while a session was being tracked
C6_Witness ==
  /\ enterResult = "false"
  /\ enterOutcome = "refused"
  /\ liveTimers # {}
  /\ ~TrackingZero(View(vrSessionData))

Idle ==
  /\ xrState = "NOT_IN_XR"
  /\ ~sessions[vrSessionData].isActive
  /\ TrackingZero(View(vrSessionData))
  /\ PollerStopped

\* C7: every step of an exitVR call made in the idle state, with or without
\* a helper, ends without an error and leaves the snapshot and the stopped
\* poller as they were.
C7_ExitStep ==
  ( /\ Idle
    /\ exitPc # "awaitSession"
    /\ exitPc' # "awaitSession"
    /\ (exitPc' # exitPc \/ exitResult' \notin {exitResult, "none"}) ) =>
     /\ exitPc' = "idle" => exitResult' = "resolved"
     /\ ViewOf(sessions', objects', vrSessionData) = View(vrSessionData)
     /\ headTrackingInterval' = 0
     /\ liveTimers' = {}

C8_SnapshotIsolated ==
  /\ uiSnapshot # vrSessionData
  /\ ObjRefs(sessions[uiSnapshot]) \cap ObjRefs(sessions[vrSessionData]) = {}

Untorn(r) ==
  /\ objects[sessions[r].headRotation].origin = objects[sessions[r].headPosition].origin
  /\ objects[sessions[r].controllers].origin = objects[sessions[r].headPosition].origin

\* C9: what a returned snapshot reads never changes through later ticks,
\* notifications or dispose, and in every snapshot headPosition,
\* headRotation and controllers stem from one tick or from one zeroed reset.
C9_UntornState == Untorn(vrSessionData) /\ Untorn(uiSnapshot)

C9_HeldStep ==
  uiSnapshot' = uiSnapshot =>
    ViewOf(sessions', objects', uiSnapshot) = View(uiSnapshot)

C11_NoFrameAfterDispose == disposed => rafCallback = "none"


\* C12: when the App component unmounts, the teardown of its mount effect
\* has run: the 100 ms poll timer is cleared and VRSceneManager.dispose()
\* has been called.
C12_TeardownOnUnmount == ~appMounted => (~updateInterval /\ vrDisposed)

\* the radians of a slider value, in units of pi/1800
FovRadians == { (1800 * deg) \div 180 : deg \in 70 .. 110 }

\* a state with an XR session running and tracking data read
InSession ==
  /\ sessions[vrSessionData].isActive
  /\ liveTimers # {}
  /\ ~TrackingZero(View(vrSessionData))

C13_FovStep ==
  cameraFov' # cameraFov =>
    /\ cameraFov' \in FovRadians
    /\ UNCHANGED <<vrSetup, xrHelper, observerAdded, xrState, sessions, objects,
                   headTrackingInterval, liveTimers, uiSnapshot, enterPc,
                   enterOutcome, enterResult, exitPc, exitResult, vrDisposed,
                   trackingPhase, pollerLog, config, setup, appMounted,
                   updateInterval>>

\* C13: updateCameraFOV(deg) with deg in 70..110 sets the desktop camera's
\* fov to deg*pi/180 and changes nothing else: the XR state, the session
\* data, App's snapshot and the head-tracking poller stay as they were,
\* outside a session and inside one.
C13_FovOnlyCamera == [][C13_FovStep]_vars

C13_Witness == cameraFov = 1100 /\ InSession

\* C14: each construction option toggles its setup step: physics iff
\* enablePhysics, the audio pipeline iff enableAudio, teleportation iff
\* enableTeleportation, a skybox from the option iff skyboxTexture is given.
C14_OptionsToggleSteps ==
  (vrSetup = "done" /\ xrHelper) =>
    /\ setup.physics = config.enablePhysics
    /\ setup.audio = config.enableAudio
    /\ setup.teleportation = config.enableTeleportation
    /\ setup.skybox = config.skyboxTexture


\* the bins of band i: the contiguous indices [i*w, (i+1)*w), counted from 0
Group(i, w) == { j \in 0 .. (binCount - 1) : i * w <= j /\ j < (i + 1) * w }

RECURSIVE GroupSum(_, _)
GroupSum(data, S) ==
  IF S = {} THEN 0
  ELSE LET j == CHOOSE x \in S : TRUE
       IN data[j + 1] + GroupSum(data, S \ {j})

\* min(mean/255*2.5, 1) of a group of w bins, then 0.7*old + 0.3*normalized;
\* the mean of no bins is not a number
ExpectedBand(old, data, i, w) ==
  IF w = 0 \/ IsNaN(old) THEN NaN
  ELSE LET amplified == ((GroupSum(data, Group(i, w)) \div ByteUnit) * Scale) \div (2 * w)
           normalized == IF amplified > Scale THEN Scale ELSE amplified
       IN (7 * old + 3 * normalized) \div 10

\* the bands whose result changes when bin k of the sample is given value v
Influenced(k, v) ==
  { i \in Bands :
      processFrequencyBands(smoothedData, [ frequencyData' EXCEPT ![k + 1] = v ],
                            bandCount)[i] # smoothedData'[i] }

C15_BandsStep ==
  frames' = frames + 1 =>
    LET w == binCount \div bandCount
    IN /\ \A i \in Bands :
            smoothedData'[i] = ExpectedBand(smoothedData[i], frequencyData', i, w)
       /\ \A k \in 0 .. (binCount - 1) : \A v \in ByteVals :
            /\ Cardinality(Influenced(k, v)) <= 1
            /\ k >= bandCount * w => Influenced(k, v) = {}
       /\ UNCHANGED <<bandCount, binCount, audioPc, audioContext, analyser,
                      microphone, particleEmissionTimers, particlePool,
                      spectrumBars, animationFrame, rafCallback, burstTimeouts,
                      lastFrame, disposed, burstDropped, lateBurst,
                      emissionDropped, baseColors>>
       /\ UNCHANGED vrVars

\* C15: one processFrequencyBands call gives every band i, with w =
\* floor(bins/n), 0.7 of its old value plus 0.3 of min(mean/255*2.5, 1) over
\* the bins [i*w, (i+1)*w); a bin influences at most one band, the bins from
\* n*w on influence none, and nothing but smoothedData is modified.
C15_BandsComputed == [][C15_BandsStep]_vars

C15_Witness ==
  /\ frames >= 1
  /\ bandCount = 2
  /\ binCount = 3
  /\ frequencyData[3] # 0
  /\ smoothedData[0] # 0
  /\ smoothedData[1] # smoothedData[0]
  /\ ~IsNaN(smoothedData[1])


\* a frame of the microphone loop on an all-zero sample, every band at 0
SilentFrame ==
  /\ frames' = frames + 1
  /\ lastFrame' = "mic"
  /\ \A j \in DOMAIN frequencyData' : frequencyData'[j] = 0
  /\ \A i \in Bands : smoothedData[i] = 0

C16_SilenceStep ==
  SilentFrame =>
    /\ \A i \in Bands : smoothedData'[i] = 0
    /\ \A i \in DOMAIN spectrumBars' : spectrumBars'[i] = Scale \div 2

\* C16: a band fed the input it already holds keeps it; in particular with
\* an all-zero sample from the initial state every smoothed value stays 0
\* and every bar scale stays at the base height 0.5.
C16_SilenceIsFixedPoint == [][C16_SilenceStep]_vars


\* C17: in every reachable state each pool entry's active flag equals its
\* mesh's enabled state: both false after pool initialisation, both true
\* from emitParticle on, both false once life has reached <= 0; no entry is
\* enabled while inactive.
C17_ActiveIsEnabled ==
  \A k \in DOMAIN particlePool : particlePool[k].active = particlePool[k].enabled

\* entries in each of the three conditions at once: never emitted, emitted
\* and shown, emitted and dead
C17_Witness ==
  /\ \E k \in DOMAIN particlePool :
       LET p == particlePool[k] IN p.emissions = 0 /\ ~p.active /\ ~p.enabled
  /\ \E k \in DOMAIN particlePool :
       LET p == particlePool[k] IN p.emissions >= 1 /\ p.active /\ p.enabled
  /\ \E k \in DOMAIN particlePool :
       LET p == particlePool[k] IN p.emissions >= 1 /\ ~p.active /\ ~p.enabled


\* the entries of band b that an emitParticle call selected in this step
Emitted(b) ==
  { k \in (DOMAIN particlePool) \cap (DOMAIN particlePool') :
      /\ particlePool[k].cylinderIndex = b
      /\ particlePool'[k].emissions # particlePool[k].emissions }

\* max(0.05, 0.3 - 0.25 * intensity), in time units
ResetInterval(intensity) ==
  IF IsNaN(intensity) THEN NaN
  ELSE IF 6 * Scale - 5 * intensity > Scale THEN 6 * Scale - 5 * intensity ELSE Scale

\* the timers after one updateParticleEmission(deltaTime) on the step's intensities
TimersStepped(deltaTime) ==
  \A i \in Bands :
    LET timer == particleEmissionTimers[i] - deltaTime
    IN IF timer <= 0
       THEN /\ particleEmissionTimers'[i] = ResetInterval(smoothedData'[i])
            /\ Cardinality(Emitted(i)) <= 1
       ELSE /\ particleEmissionTimers'[i] = timer
            /\ Emitted(i) = {}

C18_EmissionStep ==
  frames' = frames + 1 =>
    /\ \E deltaTime \in DeltaTimes : TimersStepped(deltaTime)
    /\ \A i \in Bands :
         0 < particleEmissionTimers'[i] /\ particleEmissionTimers'[i] <= 6 * Scale

\* C18: each updateParticleEmission(dt) step decrements every band's timer
\* by dt; a band whose timer is then <= 0 gets one emitParticle call and its
\* timer reset to max(0.05, 0.3 - 0.25*intensity), a band whose timer is
\* still > 0 gets no emission and no reset; after every step each timer lies
\* in (0, 0.3].
C18_TimerStep == [][C18_EmissionStep]_vars


\* band i's timer expired in this frame and was reset
TimerExpired(i) ==
  /\ frames' = frames + 1
  /\ ~IsNaN(particleEmissionTimers[i])
  /\ \E deltaTime \in DeltaTimes : particleEmissionTimers[i] - deltaTime <= 0
  /\ particleEmissionTimers'[i] = ResetInterval(smoothedData'[i])

C19_BurstStep ==
  /\ \A i \in Bands :
       /\ burstTimeouts'[i] <= burstTimeouts[i] + 2
       /\ burstTimeouts'[i] > burstTimeouts[i] =>
            /\ TimerExpired(i)
            /\ ~IsNaN(smoothedData'[i])
            /\ 10 * smoothedData'[i] > 7 * Scale
  /\ \A b \in Bands :
       Cardinality({ k \in DOMAIN particlePool' :
                       particlePool'[k].active /\ particlePool'[k].cylinderIndex = b })
         <= maxParticlesPerCylinder

\* C19: burst emissions are scheduled only in an update step in which the
\* band's timer expired and its intensity is strictly above 0.7; such a
\* step schedules 0, 1 or 2 extra emitParticle calls for that band; a band
\* whose intensity does not exceed 0.7 gets none, and no step leaves a band
\* with more active entries than its pool capacity.
C19_BurstsOnlyAboveThreshold == [][C19_BurstStep]_vars

\* two extra emissions pending for a band while another band has none
C19_Witness ==
  /\ \E b \in Bands : burstTimeouts[b] = 2 /\ 10 * smoothedData[b] > 7 * Scale
  /\ \E b \in Bands :
       burstTimeouts[b] = 0 /\ ~IsNaN(smoothedData[b]) /\ 10 * smoothedData[b] <= 7 * Scale


\* a burst callback of band b fires in this step
BurstFires(b) ==
  /\ frames' = frames
  /\ burstTimeouts'[b] = burstTimeouts[b] - 1

C20_ExhaustedStep ==
  \A b \in Bands :
    ActiveCount(b) = maxParticlesPerCylinder =>
      /\ emitParticle(particlePool, spectrumBars, b) = particlePool
      /\ BurstFires(b) =>
           /\ particlePool' = particlePool
           /\ \A c \in Bands \ {b} : burstTimeouts'[c] = burstTimeouts[c]
           /\ particleEmissionTimers' = particleEmissionTimers

\* C20: emitParticle called for a band all of whose pool entries are active
\* is a silent no-op: no pool entry of any band changes, and the dropped
\* particle is not queued for a later emission.
C20_ExhaustedIsNoop == [][C20_ExhaustedStep]_vars

\* a burst callback was dropped on a full band, every entry of which
\* is still in flight as it was
C20_Witness ==
  /\ burstDropped
  /\ \E b \in Bands : ActiveCount(b) = maxParticlesPerCylinder /\ burstTimeouts[b] = 0


\* the interval timer of the poller is running
PollerRunning == headTrackingInterval # 0 /\ liveTimers # {}

C21_PollerState ==
  /\ PollerRunning <=> trackingPhase = "started"
  /\ PollerStopped <=> trackingPhase = "stopped"
  /\ PollerStopped => TrackingZero(View(vrSessionData))

C21_PollerStep ==
  (liveTimers' # liveTimers \/ headTrackingInterval' # headTrackingInterval) =>
     \/ xrState' = "IN_XR" /\ liveTimers' # {}
     \/ xrState' = "NOT_IN_XR" /\ liveTimers' = {}

C24_InactiveIsIdle ==
  ~View(vrSessionData).isActive =>
    TrackingZero(View(vrSessionData)) /\ PollerStopped

C25_TimerState ==
  /\ Cardinality(liveTimers) <= 1
  /\ liveTimers \subseteq {headTrackingInterval}
  /\ xrState = "NOT_IN_XR" => liveTimers = {}

C25_DisposeStep == (vrDisposed' /\ ~vrDisposed) => liveTimers' = {}

\* C25: at most one tracking interval timer is live at any time: every
\* timer startHeadTracking created except the most recent one has been
\* cleared, also when IN_XR arrives twice in a row, and after NOT_IN_XR or
\* dispose() none is live.
C25_AtMostOneTimer == []C25_TimerState /\ [][C25_DisposeStep]_vars

\* IN_XR arrived again while a timer was running: the second timer is the
\* only live one
C25_Witness == headTrackingInterval = 2 /\ liveTimers = {2}

\* C26: isActive = true implies isSupported = true, for every outcome of
\* setupVR followed by any enterVR calls and runtime notifications.
C26_ActiveImpliesSupported ==
  View(vrSessionData).isActive => View(vrSessionData).isSupported


\* a frame of the microphone loop that follows an earlier frame
LaterMicFrame ==
  /\ frames >= 1
  /\ frames' = frames + 1
  /\ lastFrame' = "mic"

C23_OrderStep ==
  LaterMicFrame =>
    \A b \in Bands : \A k \in Emitted(b) :
      particlePool'[k].topY = spectrumBars[b]

\* C23: within a frame of the microphone loop the bars' scale and position
\* are updated after that frame's particle update and emission: a particle
\* the frame emits is placed on top of its bar as the bar stood before the
\* frame's bar update.
C23_BarsAfterEmission == [][C23_OrderStep]_vars


\* a defined value in [0,1], in colour units
InColorRange(x) == ~IsNaN(x) /\ 0 <= x /\ x <= ColorScale

\* C22: for every band count n > 0 and every band i the gradient parameter
\* i/(n-1) is a defined value in [0,1] and getCyberpunkColor returns colour
\* components in [0,1] for it.
C22_HueDefined ==
  \A i \in DOMAIN baseColors :
    /\ InColorRange(baseColors[i].progress)
    /\ InColorRange(baseColors[i].color.r)
    /\ InColorRange(baseColors[i].color.g)
    /\ InColorRange(baseColors[i].color.b)


\* the defined timers after one loop over the bands with elapsed time
\* deltaTime: an expired timer is set to the new interval, not advanced by it
RegularStepped(deltaTime) ==
  \A i \in Bands :
    ~IsNaN(particleEmissionTimers[i]) =>
      IF particleEmissionTimers[i] - deltaTime <= 0
      THEN particleEmissionTimers'[i] = ResetInterval(smoothedData'[i])
      ELSE particleEmissionTimers'[i] = particleEmissionTimers[i] - deltaTime

\* band i is full after the step and none of its entries was emitted in it
DroppedIn(i) ==
  /\ Emitted(i) = {}
  /\ Cardinality({ k \in DOMAIN particlePool' :
                     particlePool'[k].active /\ particlePool'[k].cylinderIndex = i })
       = maxParticlesPerCylinder
  /\ particleEmissionTimers'[i] = ResetInterval(smoothedData'[i])

C27_RegularStep ==
  frames' = frames + 1 =>
    /\ \A b \in Bands :
         /\ Cardinality(Emitted(b)) <= 1
         /\ \A k \in Emitted(b) :
              particlePool'[k].emissions = particlePool[k].emissions + 1
    /\ \E deltaTime \in DeltaTimes \cup {0} : RegularStepped(deltaTime)
    /\ (emissionDropped' /\ ~emissionDropped) => \E i \in Bands : DroppedIn(i)

\* C27: each updateParticleEmission step performs at most one regular
\* emitParticle call per band, however large the elapsed time is, because
\* an expired timer is reset to the new interval rather than advanced by
\* it; and the timer is reset on expiry even when the emission was dropped
\* because the band's pool was exhausted.
C27_OneRegularEmission == [][C27_RegularStep]_vars

\* a frame's regular emission was dropped on a full band whose timer runs again
C27_Witness ==
  /\ emissionDropped
  /\ \E b \in Bands :
       /\ ActiveCount(b) = maxParticlesPerCylinder
       /\ particleEmissionTimers[b] > 0


\* the synthetic intensity a bar scale of the fallback loop stands for:
\* scaling.y = 0.5 + intensity * maxHeight * 0.5
SineIntensity(scalingY) == ((scalingY - Scale \div 2) * 2) \div maxHeight

C28_FallbackState ==
  audioPc = "fallback" =>
    /\ \A i \in Bands :
         /\ smoothedData[i] = 0
         /\ burstTimeouts[i] = 0
         /\ 0 < particleEmissionTimers[i]
         /\ particleEmissionTimers[i] <= 6 * Scale
    /\ \A i \in DOMAIN spectrumBars :
         /\ Scale <= 10 * SineIntensity(spectrumBars[i])
         /\ 10 * SineIntensity(spectrumBars[i]) <= 4 * Scale

C28_FallbackStep ==
  (audioPc' = "fallback" /\ frames' = frames + 1) =>
    \A i \in Bands :
      \/ particleEmissionTimers'[i] = 6 * Scale
      \/ particleEmissionTimers'[i] < particleEmissionTimers[i]

\* C28: in fallback mode the smoothed band intensities are never written
\* and stay 0, so every band's emission timer is always reset to 0.3 s and
\* no burst emission is ever scheduled, while the bars are driven by the
\* synthetic sine intensities in [0.1, 0.4].
C28_FallbackIsSilent == []C28_FallbackState /\ [][C28_FallbackStep]_vars

\* the fallback loop has run several frames: particles in flight, bars at
\* different heights, a timer part way down
C28_Witness ==
  /\ audioPc = "fallback"
  /\ frames >= 3
  /\ \E k \in DOMAIN particlePool : particlePool[k].active
  /\ \E i, j \in DOMAIN spectrumBars : spectrumBars[i] # spectrumBars[j]
  /\ \E i \in Bands : particleEmissionTimers[i] < 6 * Scale


\* entry k is inactive once the frame's updateParticles(deltaTime) has run
AgedOut(k, deltaTime) ==
  \/ ~particlePool[k].active
  \/ particlePool[k].life - deltaTime <= 0

\* the entries of band b that the frame's emission may select
FreeAfterAgeing(b, deltaTime) ==
  { k \in (DOMAIN particlePool) \cap (DOMAIN particlePool') :
      particlePool[k].cylinderIndex = b /\ AgedOut(k, deltaTime) }

C29_AgeingStep ==
  frames' = frames + 1 =>
    \E deltaTime \in DeltaTimes \cup {0} :
      /\ RegularStepped(deltaTime)
      /\ \A b \in Bands :
           LET free == FreeAfterAgeing(b, deltaTime)
               expired == /\ ~IsNaN(particleEmissionTimers[b])
                          /\ particleEmissionTimers[b] - deltaTime <= 0
           IN /\ \A k \in Emitted(b) :
                   /\ particlePool'[k].life = maxLife
                   /\ particlePool'[k].active
                   /\ k \in free
                   /\ \A j \in free : k <= j
              /\ (expired /\ free # {}) => Emitted(b) # {}

\* C29: within one frame particle ageing runs before emission: a particle
\* emitted by the frame's regular emission still has life = maxLife at the
\* end of that frame, and a pool entry whose life reached <= 0 in a frame is
\* already eligible for re-emission by its band in that same frame.
C29_AgeingBeforeEmission == [][C29_AgeingStep]_vars

\* after the second frame an entry is in its second flight with a full
\* life: it died and was emitted again in that one frame
C29_Witness ==
  /\ frames = 2
  /\ \E k \in DOMAIN particlePool :
       /\ particlePool[k].emissions = 2
       /\ particlePool[k].active
       /\ particlePool[k].life = maxLife


\* after dispose() the visualizer holds no pool entry and no bar
C30_DisposedState == disposed => (particlePool = <<>> /\ spectrumBars = <<>>)

C30_LateBurstStep ==
  \A b \in Bands :
    (disposed /\ BurstFires(b)) =>
      /\ particlePool = <<>>
      /\ emitParticle(particlePool, spectrumBars, b) = particlePool
      /\ particlePool' = particlePool
      /\ spectrumBars' = spectrumBars
      /\ \A c \in Bands \ {b} : burstTimeouts'[c] = burstTimeouts[c]
      /\ UNCHANGED <<bandCount, binCount, audioPc, audioContext, analyser,
                     microphone, frequencyData, smoothedData,
                     particleEmissionTimers, animationFrame, rafCallback,
                     lastFrame, disposed, baseColors>>

\* C30: a staggered burst callback that fires after dispose() has run
\* changes no state and raises no error: it finds no pool entry, returns
\* before reading any bar, activates no particle and enables no disposed
\* mesh, for every interleaving of the burst timers with dispose().
C30_LateBurstIsNoop == []C30_DisposedState /\ [][C30_LateBurstStep]_vars

\* a burst callback has run after dispose() and another one is still pending
C30_Witness ==
  /\ disposed
  /\ lateBurst
  /\ \E b \in Bands : burstTimeouts[b] > 0

====
